---- MODULE Spec2Model ----
(***************************************************************************)
(* Model of src/app.py: the module-level start-up (connection string       *)
(* selection and client construction) and the five request handlers over   *)
(* the "students" collection.                                              *)
(*                                                                         *)
(* A handler suspends only at an `await`; each awaited store call is one   *)
(* atomic step, and handlers of concurrent requests interleave between     *)
(* their awaits.  Numbers with one decimal are kept in tenths (3.0 = 30).  *)
(***************************************************************************)
EXTENDS Integers, Sequences, FiniteSets, Bags, TLC

\* ---------------------------------------------------------------- bounds
\* ObjectIds the default factory generates in one run.
MaxIds == 1
\* Handlers suspended between two awaits at the same time.
MaxInflight == 2

\* ------------------------------------------------------ program constants
\* to_list(1000)
ListCap == 1000
\* Field(..., le=4.0), in tenths
GpaLe == 40

\* ------------------------------------------------------------ JSON values
Absent == [t |-> "absent"]
Null == [t |-> "null"]
JStr(s) == [t |-> "str", v |-> s]
JNum(n) == [t |-> "num", v |-> n]

\* The text of an identifier is modelled by a number: n >= 1 is the 24 hex
\* digit text of the n-th ObjectId, 0 a text that is no ObjectId.
ObjectId(n) == [t |-> "oid", v |-> n]
MalformedText == 0
IsValidObjectId(text) == text >= 1

\* An e-mail text is its sequence of tokens.
JdoeTest == <<"jdoe_test", "@", "example", ".", "com">>
UpdatedEmail == <<"updated_email", "@", "example", ".", "com">>
NotAnEmail == <<"jdoe_test", "example", ".", "com">>

Names == {"Jane Doe"}
Courses == {"Test Course"}
Emails == {JdoeTest, UpdatedEmail, NotAnEmail}

\* --------------------------------------------------------- field validators
Failed == [ok |-> FALSE]
Valid(v) == [ok |-> TRUE, v |-> v]

\* pydantic str
StrValidator(raw) == IF raw.t = "str" THEN Valid(raw.v) ELSE Failed

AtPositions(e) == {i \in 1..Len(e) : e[i] = "@"}

\* pydantic EmailStr: one "@", a local part before it, a dotted domain after
EmailSyntaxOk(e) ==
    /\ Cardinality(AtPositions(e)) = 1
    /\ LET a == CHOOSE i \in AtPositions(e) : TRUE
       IN  /\ a > 1
           /\ a + 3 <= Len(e)
           /\ e[a + 1] # "."
           /\ e[Len(e)] # "."
           /\ \E i \in (a + 2)..(Len(e) - 1) : e[i] = "."

EmailValidator(raw) ==
    IF raw.t = "str" /\ EmailSyntaxOk(raw.v) THEN Valid(raw.v) ELSE Failed

\* float(): the decimal literals of the inputs, in tenths
FloatLiterals == {"3.0", "4.5"}
ParseFloat(s) == IF s = "3.0" THEN 30 ELSE 45

\* pydantic float: a number is kept, a string is parsed
FloatValidator(raw) ==
    IF raw.t = "num" THEN Valid(raw.v)
    ELSE IF raw.t = "str" /\ raw.v \in FloatLiterals THEN Valid(ParseFloat(raw.v))
    ELSE Failed

\* Field(..., le=4.0) without the bound (a dropped constraint)
GpaFieldNoLe(raw) == FloatValidator(raw)

\* gpa: float = Field(..., le=4.0)
GpaField(raw) ==
    LET f == FloatValidator(raw)
    IN  IF f.ok /\ f.v <= GpaLe THEN f ELSE Failed

\* PyObjectId.validate: ObjectId.is_valid accepts an ObjectId and its text
PyObjectIdValidate(raw) ==
    IF raw.t \in {"str", "oid"} /\ IsValidObjectId(raw.v)
    THEN Valid(ObjectId(raw.v)) ELSE Failed

\* id: PyObjectId = Field(default_factory=PyObjectId, alias="_id")
IdField(raw, fresh) ==
    IF raw.t = "absent" THEN Valid(ObjectId(fresh)) ELSE PyObjectIdValidate(raw)

StudentFields == {"name", "email", "course", "gpa"}

\* The validators of StudentModel, by JSON key
StudentModelField(k, raw, fresh) ==
    CASE k = "_id" -> IdField(raw, fresh)
      [] k = "name" -> StrValidator(raw)
      [] k = "email" -> EmailValidator(raw)
      [] k = "course" -> StrValidator(raw)
      [] k = "gpa" -> GpaField(raw)

\* StudentModel(**body): the keys that fail, and the model when none does
StudentModelErrors(body, fresh) ==
    {k \in StudentFields \cup {"_id"} : ~StudentModelField(k, body[k], fresh).ok}

StudentModel(body, fresh) ==
    [id |-> StudentModelField("_id", body["_id"], fresh).v,
     name |-> StudentModelField("name", body.name, fresh).v,
     email |-> StudentModelField("email", body.email, fresh).v,
     course |-> StudentModelField("course", body.course, fresh).v,
     gpa |-> StudentModelField("gpa", body.gpa, fresh).v]

\* Optional[...] of UpdateStudentModel
None == [t |-> "none"]
Some(v) == [t |-> "some", v |-> v]

Optional(raw, validated) ==
    IF raw.t \in {"absent", "null"} THEN Valid(None)
    ELSE IF validated.ok THEN Valid(Some(validated.v)) ELSE Failed

\* The validators of UpdateStudentModel, by JSON key
UpdateStudentModelField(k, raw) ==
    CASE k = "name" -> Optional(raw, StrValidator(raw))
      [] k = "email" -> Optional(raw, EmailValidator(raw))
      [] k = "course" -> Optional(raw, StrValidator(raw))
      [] k = "gpa" -> Optional(raw, FloatValidator(raw))

UpdateStudentModelErrors(body) ==
    {k \in StudentFields : ~UpdateStudentModelField(k, body[k]).ok}

UpdateStudentModel(body) ==
    [k \in StudentFields |-> UpdateStudentModelField(k, body[k]).v]

\* jsonable_encoder without json_encoders: the ObjectId is left as it is
JsonableEncoderKeepsObjectId(student) ==
    [_id |-> student.id, name |-> student.name, email |-> student.email,
     course |-> student.course, gpa |-> student.gpa]

\* jsonable_encoder(student): by alias, ObjectId to str
JsonableEncoder(student) ==
    [_id |-> JStr(student.id.v), name |-> student.name, email |-> student.email,
     course |-> student.course, gpa |-> student.gpa]


\* `student` of update_student: the fields that are not None
UpdateSet(model) ==
    [k \in {f \in StudentFields : model[f].t = "some"} |-> model[k].v]

\* ------------------------------------------------------------- responses
JObject(o) == [t |-> "object", v |-> o]
JArray(items) == [t |-> "array", v |-> items]
NoDoc == [none |-> TRUE]

\* str(id)
IdText(id) == JStr(id.v)

\* A response: the handler, the id text it is about (the path parameter, or
\* the inserted id of a create), the status, the body, and (history, for an
\* update that modified a document) the document its own write left.
Response(kind, id, status, body, wrote) ==
    [kind |-> kind, id |-> id, status |-> status, body |-> body, wrote |-> wrote]
NoResp == Response("none", Absent, 0, Null, NoDoc)

\* HTTPException(status_code=404, detail=f"Student {id} not found")
NotFound(kind, id, wrote) ==
    Response(kind, id, 404,
             JObject([detail |-> [message |-> "Student {id} not found", id |-> id]]), wrote)

\* RequestValidationError: 422 naming the fields
Unprocessable(kind, id, errors) ==
    Response(kind, id, 422, JObject([detail |-> [loc |-> errors]]), NoDoc)

\* An exception no handler catches
ServerError(kind, id, wrote) ==
    Response(kind, id, 500, JStr("Internal Server Error"), wrote)

\* A stored document as the input of the response model
AsBody(doc) ==
    [_id |-> doc["_id"], name |-> JStr(doc.name), email |-> JStr(doc.email),
     course |-> JStr(doc.course), gpa |-> JNum(doc.gpa)]

ResponseValid(doc) == StudentModelErrors(AsBody(doc), 0) = {}

\* response_model=StudentModel: validate the returned document, encode by alias
SerializeStudent(kind, id, doc, wrote) ==
    IF ResponseValid(doc)
    THEN Response(kind, id, 200, JObject(JsonableEncoder(StudentModel(AsBody(doc), 0))), wrote)
    ELSE ServerError(kind, id, wrote)

\* response_model=List[StudentModel]: a JSON array of the encoded documents
SerializeList(students) ==
    IF \A d \in students : ResponseValid(d)
    THEN Response("list", Absent, 200,
             JArray({JsonableEncoder(StudentModel(AsBody(d), 0)) : d \in students}), NoDoc)
    ELSE ServerError("list", Absent, NoDoc)

\* ------------------------------------------------------- the collection
Matching(coll, id) == {d \in coll : d["_id"] = id}

\* find_one({"_id": id})
FindOne(coll, id) ==
    IF Matching(coll, id) = {} THEN NoDoc ELSE CHOOSE d \in Matching(coll, id) : TRUE

\* {"$set": student} on one document
SetFields(doc, student) ==
    [_id |-> doc["_id"],
     name |-> IF "name" \in DOMAIN student THEN student["name"] ELSE doc.name,
     email |-> IF "email" \in DOMAIN student THEN student["email"] ELSE doc.email,
     course |-> IF "course" \in DOMAIN student THEN student["course"] ELSE doc.course,
     gpa |-> IF "gpa" \in DOMAIN student THEN student["gpa"] ELSE doc.gpa]

\* update_one with upsert=True: a missing document is inserted
UpdateOneUpsert(coll, id, student) ==
    IF Matching(coll, id) = {}
    THEN coll \cup {SetFields([_id |-> id, name |-> "", email |-> <<>>,
                               course |-> "", gpa |-> 0], student)}
    ELSE (coll \ {FindOne(coll, id)}) \cup {SetFields(FindOne(coll, id), student)}

\* update_one({"_id": id}, {"$set": student}): the collection afterwards
UpdateOne(coll, id, student) ==
    IF Matching(coll, id) = {} THEN coll
    ELSE (coll \ {FindOne(coll, id)}) \cup {SetFields(FindOne(coll, id), student)}

\* update_result.modified_count
ModifiedCount(coll, id, student) ==
    IF UpdateOne(coll, id, student) = coll THEN 0 ELSE 1

\* delete_one that removes nothing
DeleteOneKeeps(coll, id) == coll

\* delete_one({"_id": id}): the collection afterwards
DeleteOne(coll, id) == coll \ {FindOne(coll, id)}

\* delete_result.deleted_count
DeletedCount(coll, id) == IF Matching(coll, id) = {} THEN 0 ELSE 1

\* find().to_list(1000): every way to take at most ListCap documents
ToList(coll) ==
    IF Cardinality(coll) <= ListCap THEN {coll}
    ELSE {s \in SUBSET coll : Cardinality(s) = ListCap}


\* ------------------------------------------------------------------ state
VARIABLES
    env,        \* the process environment: variable name -> value
    spc,        \* position of the module-level code
    url, uri, uri_srv, user, pwd,   \* the module's globals of those names
    client,     \* the client: what it was built from, Undefined before
    srvFailed,  \* history: the construction from uri_srv raised
    db,         \* db["students"]: the stored documents
    nextId,     \* the number of the next ObjectId the default factory makes
    inflight,   \* bag of handlers suspended between two awaits
    resp,       \* the response the last step sent, NoResp when it sent none
    pristine,   \* history: documents as created, not updated or deleted since
    live,       \* history: ids created and not deleted since
    gone        \* history: ids deleted and not created again since

startupVars == <<env, spc, url, uri, uri_srv, user, pwd, client, srvFailed>>
serverVars == <<db, nextId, inflight, resp, pristine, live, gone>>
vars == <<env, spc, url, uri, uri_srv, user, pwd, client, srvFailed,
          db, nextId, inflight, resp, pristine, live, gone>>

\* A handler suspended at an await: where, its id, and (history, for an update
\* that modified a document) the document its own write left in the collection.
Suspended(pc, id, wrote) == [pc |-> pc, id |-> id, wrote |-> wrote]

Suspend(c) == inflight (+) SetToBag({c})
Resume(c) == inflight (-) SetToBag({c})
InflightCount == BagCardinality(inflight)

\* --------------------------------------------------------------- start-up
NOTSET == "<NOTSET>"
Unbound == "<unbound>"
Undefined == [host |-> "<undefined>"]

EnvVars == {"MONGODB_URL", "MONGODB_URI", "MONGODB_URI_SRV",
            "MONGODB_USERNAME", "MONGODB_PASSWORD"}

\* What a variable holds when the environment sets it
SetValue(name) ==
    CASE name = "MONGODB_URL" -> "mongodb://url-host"
      [] name = "MONGODB_URI" -> "mongodb://uri-host"
      [] name = "MONGODB_URI_SRV" -> "mongodb+srv://srv-host"
      [] name = "MONGODB_USERNAME" -> "user"
      [] name = "MONGODB_PASSWORD" -> "secret"

Environments == {e \in [EnvVars -> {NOTSET} \cup {SetValue(n) : n \in EnvVars}] :
                    \A n \in EnvVars : e[n] \in {NOTSET, SetValue(n)}}

\* os.getenv(name, "<NOTSET>")
GetEnv(name) == env[name]

\* AsyncIOMotorClient(host, username=..., password=...)
MotorClient(host, username, password) ==
    [host |-> host, username |-> username, password |-> password]

\* lines 19-21
ReadConnectionEnv ==
    /\ spc = "getenv"
    /\ url' = GetEnv("MONGODB_URL")
    /\ uri' = GetEnv("MONGODB_URI")
    /\ uri_srv' = GetEnv("MONGODB_URI_SRV")
    /\ spc' = "select"
    /\ UNCHANGED <<env, user, pwd, client, srvFailed>>
    /\ UNCHANGED serverVars

\* lines 23-37: exit when nothing is set, fall back to url, then the
\* uri_srv test that assigns uri
SelectConnectionString ==
    /\ spc = "select"
    /\ IF uri = NOTSET /\ uri_srv = NOTSET /\ url = NOTSET
       THEN /\ spc' = "exited"
            /\ uri' = uri
       ELSE /\ spc' = "credentials"
            /\ LET fallen == IF uri = NOTSET /\ uri_srv = NOTSET THEN url ELSE uri
               IN  uri' = IF uri_srv = NOTSET THEN uri_srv ELSE fallen
    /\ UNCHANGED <<env, url, uri_srv, user, pwd, client, srvFailed>>
    /\ UNCHANGED serverVars

\* lines 39-42
ReadCredentials ==
    /\ spc = "credentials"
    /\ user' = GetEnv("MONGODB_USERNAME")
    /\ pwd' = GetEnv("MONGODB_PASSWORD")
    /\ spc' = "connect_srv"
    /\ UNCHANGED <<env, url, uri, uri_srv, client, srvFailed>>
    /\ UNCHANGED serverVars

\* lines 45-51 and 53-60: the client from uri_srv; the constructor returns or
\* raises, and the except clause goes on to uri only when uri is set
ConnectSrv ==
    /\ spc = "connect_srv"
    /\ \E raises \in BOOLEAN :
          IF ~raises
          THEN /\ client' = IF NOTSET \notin {user, pwd}
                            THEN MotorClient(uri_srv, user, pwd)
                            ELSE MotorClient(uri_srv, "<none>", "<none>")
               /\ spc' = "bind"
               /\ UNCHANGED srvFailed
          ELSE /\ srvFailed' = TRUE
               /\ spc' = IF uri # NOTSET THEN "connect_uri" ELSE "bind"
               /\ UNCHANGED client
    /\ UNCHANGED <<env, url, uri, uri_srv, user, pwd>>
    /\ UNCHANGED serverVars

\* lines 52 and 61: the client from uri; an exception here is not caught
ConnectUri ==
    /\ spc = "connect_uri"
    /\ \E raises \in BOOLEAN :
          IF ~raises
          THEN /\ client' = IF NOTSET \notin {user, pwd}
                            THEN MotorClient(uri, user, pwd)
                            ELSE MotorClient(uri, "<none>", "<none>")
               /\ spc' = "bind"
          ELSE /\ spc' = "crashed"
               /\ UNCHANGED client
    /\ UNCHANGED <<env, url, uri, uri_srv, user, pwd, srvFailed>>
    /\ UNCHANGED serverVars

\* lines 64-65: db = client.college, a NameError when client was never bound
BindDb ==
    /\ spc = "bind"
    /\ spc' = IF client = Undefined THEN "crashed" ELSE "running"
    /\ UNCHANGED <<env, url, uri, uri_srv, user, pwd, client, srvFailed>>
    /\ UNCHANGED serverVars

\* ----------------------------------------------------------------- inputs
PathIds == {JStr(n) : n \in MalformedText..MaxIds}

\* Bodies StudentModel accepts: no _id, or the text of an id made before
AcceptedBodies ==
    [_id : {Absent} \cup {JStr(n) : n \in 1..(nextId - 1)},
     name : {JStr(n) : n \in Names},
     email : {JStr(JdoeTest), JStr(UpdatedEmail)},
     course : {JStr(c) : c \in Courses},
     gpa : {JStr("3.0")}]

\* initial_doc of the test
InitialDoc ==
    [_id |-> Absent, name |-> JStr("Jane Doe"), email |-> JStr(JdoeTest),
     course |-> JStr("Test Course"), gpa |-> JStr("3.0")]

\* What a client can get wrong in one field
Defects ==
    [_id |-> {JStr(MalformedText)},
     name |-> {Absent},
     email |-> {Absent, JStr(NotAnEmail)},
     course |-> {Absent, Null},
     gpa |-> {Absent, JNum(45), JStr("4.5")}]

\* The accepted bodies, and initial_doc with one field wrong
CreateBodies ==
    AcceptedBodies \cup
    UNION {{[InitialDoc EXCEPT ![k] = x] : x \in Defects[k]} : k \in DOMAIN Defects}

UpdateBodies ==
    [name : {Absent} \cup {JStr(n) : n \in Names},
     email : {Absent} \cup {JStr(e) : e \in Emails},
     course : {Null} \cup {JStr(c) : c \in Courses},
     gpa : {Absent, JStr("3.0"), JNum(45)}]

\* ------------------------------------------------------------- handlers
\* What one step of a handler does: the collection it leaves, the response it
\* sends (NoResp when it suspends at the next await), where it suspends.
Outcome(coll, response, suspended) ==
    [db |-> coll, resp |-> response, cont |-> suspended]

\* The document as the client is to see it: the id as text, the validated fields
Expected(student) ==
    [_id |-> JStr(student.id.v), name |-> student.name, email |-> student.email,
     course |-> student.course, gpa |-> student.gpa]

Untouch(id) == {d \in pristine : d["_id"] # id}

\* POST /: validation, jsonable_encoder, insert_one (first await)
CreateOutcome(body) ==
    IF StudentModelErrors(body, nextId) # {}
    THEN Outcome(db, Unprocessable("create", Absent, StudentModelErrors(body, nextId)), {})
    ELSE LET student == JsonableEncoder(StudentModel(body, nextId))
         IN  IF Matching(db, student["_id"]) # {}
             THEN \* DuplicateKeyError
                  Outcome(db, ServerError("create", Absent, NoDoc), {})
             ELSE Outcome(db \cup {student}, NoResp,
                          {Suspended("create_find", student["_id"], NoDoc)})

CreateStudent(body) ==
    /\ spc = "running"
    /\ LET o == CreateOutcome(body)
           made == StudentModelErrors(body, nextId) = {} /\ body["_id"] = Absent
           inserted == {Expected(StudentModel(body, nextId)) : d \in o.db \ db}
       IN  /\ made => nextId <= MaxIds
           /\ o.cont # {} => InflightCount < MaxInflight
           /\ db' = o.db
           /\ resp' = o.resp
           /\ inflight' = inflight (+) SetToBag(o.cont)
           /\ nextId' = IF made THEN nextId + 1 ELSE nextId
           /\ pristine' = {d \in pristine : \A e \in inserted : d["_id"] # e["_id"]}
                              \cup inserted
           /\ live' = live \cup {e["_id"] : e \in inserted}
           /\ gone' = gone \ {e["_id"] : e \in inserted}
    /\ UNCHANGED startupVars

\* POST /: find_one by inserted_id (second await), JSONResponse(201)
CreateFindOutcome(c) ==
    LET created_student == FindOne(db, c.id)
    IN  Outcome(db,
                Response("create", IdText(c.id), 201,
                         IF created_student = NoDoc THEN Null ELSE JObject(created_student),
                         NoDoc),
                {})

CreateFind(c) ==
    /\ c.pc = "create_find"
    /\ resp' = CreateFindOutcome(c).resp
    /\ inflight' = Resume(c)
    /\ UNCHANGED <<db, nextId, pristine, live, gone>>
    /\ UNCHANGED startupVars

\* GET /
ListOutcomes == {Outcome(db, SerializeList(students), {}) : students \in ToList(db)}

ListStudents ==
    /\ spc = "running"
    /\ \E o \in ListOutcomes : resp' = o.resp
    /\ UNCHANGED <<db, nextId, inflight, pristine, live, gone>>
    /\ UNCHANGED startupVars

\* GET /{id}
ShowOutcome(id) ==
    LET student == FindOne(db, id)
    IN  IF student # NoDoc
        THEN Outcome(db, SerializeStudent("get", id, student, NoDoc), {})
        ELSE Outcome(db, NotFound("get", id, NoDoc), {})

ShowStudent(id) ==
    /\ spc = "running"
    /\ resp' = ShowOutcome(id).resp
    /\ UNCHANGED <<db, nextId, inflight, pristine, live, gone>>
    /\ UNCHANGED startupVars

\* PUT /{id}: validation, then update_one (first await) when a field is given,
\* else the find_one of the existing document
UpdateOutcome(id, body) ==
    IF UpdateStudentModelErrors(body) # {}
    THEN Outcome(db, Unprocessable("update", id, UpdateStudentModelErrors(body)), {})
    ELSE LET student == UpdateSet(UpdateStudentModel(body))
             existing_student == FindOne(db, id)
         IN  IF Cardinality(DOMAIN student) >= 1
             THEN Outcome(UpdateOne(db, id, student), NoResp,
                          {IF ModifiedCount(db, id, student) = 1
                           THEN Suspended("update_find", id,
                                          FindOne(UpdateOne(db, id, student), id))
                           ELSE Suspended("update_existing", id, NoDoc)})
             ELSE IF existing_student # NoDoc
             THEN Outcome(db, SerializeStudent("update", id, existing_student, NoDoc), {})
             ELSE Outcome(db, NotFound("update", id, NoDoc), {})

\* The update_one of this request matches a stored document
Writes(id, body) ==
    /\ UpdateStudentModelErrors(body) = {}
    /\ DOMAIN UpdateSet(UpdateStudentModel(body)) # {}
    /\ Matching(db, id) # {}

UpdateStudent(id, body) ==
    /\ spc = "running"
    /\ LET o == UpdateOutcome(id, body)
       IN  /\ o.cont # {} => InflightCount < MaxInflight
           /\ db' = o.db
           /\ resp' = o.resp
           /\ inflight' = inflight (+) SetToBag(o.cont)
           /\ pristine' = IF Writes(id, body) THEN Untouch(id) ELSE pristine
    /\ UNCHANGED <<nextId, live, gone>>
    /\ UNCHANGED startupVars

\* PUT /{id}: modified_count == 1, find_one of the updated document
UpdateFindOutcome(c) ==
    LET updated_student == FindOne(db, c.id)
    IN  IF updated_student # NoDoc
        THEN Outcome(db, SerializeStudent("update", c.id, updated_student, c.wrote), {})
        ELSE Outcome(db, NoResp, {Suspended("update_existing", c.id, c.wrote)})

UpdateFind(c) ==
    /\ c.pc = "update_find"
    /\ resp' = UpdateFindOutcome(c).resp
    /\ inflight' = Resume(c) (+) SetToBag(UpdateFindOutcome(c).cont)
    /\ UNCHANGED <<db, nextId, pristine, live, gone>>
    /\ UNCHANGED startupVars

\* PUT /{id}: find_one of the existing document, else 404
UpdateExistingOutcome(c) ==
    LET existing_student == FindOne(db, c.id)
    IN  IF existing_student # NoDoc
        THEN Outcome(db, SerializeStudent("update", c.id, existing_student, c.wrote), {})
        ELSE Outcome(db, NotFound("update", c.id, c.wrote), {})

UpdateExisting(c) ==
    /\ c.pc = "update_existing"
    /\ resp' = UpdateExistingOutcome(c).resp
    /\ inflight' = Resume(c)
    /\ UNCHANGED <<db, nextId, pristine, live, gone>>
    /\ UNCHANGED startupVars

\* DELETE /{id}
DeleteOutcome(id) ==
    Outcome(DeleteOne(db, id),
            IF DeletedCount(db, id) = 1
            THEN Response("delete", id, 204, Null, NoDoc)
            ELSE NotFound("delete", id, NoDoc),
            {})

DeleteStudent(id) ==
    /\ spc = "running"
    /\ db' = DeleteOutcome(id).db
    /\ resp' = DeleteOutcome(id).resp
    /\ pristine' = IF DeleteOutcome(id).resp.status = 204 THEN Untouch(id) ELSE pristine
    /\ live' = IF DeleteOutcome(id).resp.status = 204 THEN live \ {id} ELSE live
    /\ gone' = IF DeleteOutcome(id).resp.status = 204 THEN gone \cup {id} ELSE gone
    /\ UNCHANGED <<nextId, inflight>>
    /\ UNCHANGED startupVars

\* The collection and the bookkeeping before any request
ServerInit ==
    /\ db = {}
    /\ nextId = 1
    /\ inflight = EmptyBag
    /\ resp = NoResp
    /\ pristine = {}
    /\ live = {}
    /\ gone = {}

\* A started server: MONGODB_URI and MONGODB_URI_SRV set, the client built
\* from uri_srv without credentials
Init ==
    /\ env = [n \in EnvVars |->
                IF n \in {"MONGODB_URI", "MONGODB_URI_SRV"} THEN SetValue(n) ELSE NOTSET]
    /\ spc = "running"
    /\ url = NOTSET
    /\ uri = SetValue("MONGODB_URI")
    /\ uri_srv = SetValue("MONGODB_URI_SRV")
    /\ user = NOTSET
    /\ pwd = NOTSET
    /\ client = MotorClient(SetValue("MONGODB_URI_SRV"), "<none>", "<none>")
    /\ srvFailed = FALSE
    /\ ServerInit

\* The import of the module, under any environment
InitStartup ==
    /\ env \in Environments
    /\ spc = "getenv"
    /\ url = Unbound
    /\ uri = Unbound
    /\ uri_srv = Unbound
    /\ user = Unbound
    /\ pwd = Unbound
    /\ client = Undefined
    /\ srvFailed = FALSE
    /\ ServerInit

NextStartup ==
    \/ ReadConnectionEnv
    \/ SelectConnectionString
    \/ ReadCredentials
    \/ ConnectSrv
    \/ ConnectUri
    \/ BindDb

SpecStartup == InitStartup /\ [][NextStartup]_vars

Next ==
    \/ \E body \in CreateBodies : CreateStudent(body)
    \/ \E c \in BagToSet(inflight) : CreateFind(c)
    \/ ListStudents
    \/ \E id \in PathIds : ShowStudent(id)
    \/ \E id \in PathIds, body \in UpdateBodies : UpdateStudent(id, body)
    \/ \E c \in BagToSet(inflight) : UpdateFind(c)
    \/ \E c \in BagToSet(inflight) : UpdateExisting(c)
    \/ \E id \in PathIds : DeleteStudent(id)

Spec == Init /\ [][Next]_vars


\* ================================================================ claims
\* What a body provides for a key, and the value it provides
Provided(raw) == raw.t \notin {"absent", "null"}
GpaAbove4(raw) == raw \in {JNum(45), JStr("4.5")}
MissingRequired(body) == \E k \in StudentFields : ~Provided(body[k])
MalformedEmail(body) == body.email = JStr(NotAnEmail)
Stored(id) == Matching(db, id) # {}
NamesId(r, id) ==
    r.body = JObject([detail |-> [message |-> "Student {id} not found", id |-> id]])
UpdateConts == {c \in BagToSet(inflight) : c.pc \in {"update_find", "update_existing"}}

C2_PartialUpdate ==
    /\ \A id \in PathIds, body \in UpdateBodies :
          Writes(id, body) =>
              LET old == FindOne(db, id)
                  new == FindOne(UpdateOutcome(id, body).db, id)
              IN  /\ new # NoDoc
                  /\ \A k \in StudentFields :
                        new[k] = IF Provided(body[k])
                                 THEN UpdateStudentModelField(k, body[k]).v.v
                                 ELSE old[k]
                  /\ UpdateOutcome(id, body).db \ {new} = db \ {old}
    /\ (resp.kind = "update" /\ resp.wrote # NoDoc) =>
          /\ resp.status = 200
          /\ resp.body = JObject(resp.wrote)

\* C3: once a Delete of X has answered 204 and X has not been created again,
\* every Get of X and every Delete of X answers 404 naming X.
C3_DeleteThenGet ==
    \A id \in gone :
        /\ ShowOutcome(id).resp.status = 404
        /\ NamesId(ShowOutcome(id).resp, id)
        /\ DeleteOutcome(id).resp.status = 404
        /\ NamesId(DeleteOutcome(id).resp, id)

\* C3 witness: a Get of a deleted id answered 404 while an Update of that id,
\* begun before the Delete, was in flight.
C3_Witness ==
    /\ resp.kind = "get"
    /\ resp.id \in gone
    /\ resp.status = 404
    /\ \E c \in UpdateConts : c.id = resp.id /\ c.wrote # NoDoc

\* The records a List response carries
Listed(body) ==
    IF body.t = "array" THEN body.v
    ELSE IF body.t = "object" /\ "students" \in DOMAIN body.v THEN body.v.students
    ELSE {}
ListedIds(body) == {d["_id"] : d \in Listed(body)}

\* C4 (as claimed): the ids a List returns are the ids created and not
\* deleted since (ListCap of them when there are more), and no deleted id.
C4_ListIds ==
    resp.kind = "list" =>
        /\ Cardinality(live) <= ListCap => ListedIds(resp.body) = live
        /\ Cardinality(live) > ListCap =>
              ListedIds(resp.body) \subseteq live /\ Cardinality(ListedIds(resp.body)) = ListCap
        /\ ListedIds(resp.body) \cap gone = {}

\* C5 (as claimed): the body of a List response is an object with a field
\* `students`, never a bare array.
C5_ListContainer ==
    resp.kind = "list" =>
        /\ resp.body.t = "object"
        /\ "students" \in DOMAIN resp.body.v

\* C6: a Create whose body has gpa above 4.0, a malformed email or a missing
\* required field is answered 422 and inserts nothing.
C6_CreateValidation ==
    \A body \in CreateBodies :
        (GpaAbove4(body.gpa) \/ MalformedEmail(body) \/ MissingRequired(body)) =>
            /\ CreateOutcome(body).resp.kind = "create"
            /\ CreateOutcome(body).resp.status = 422
            /\ CreateOutcome(body).db = db
            /\ CreateOutcome(body).cont = {}

\* C6 witness: a Create with gpa above 4.0 answered 422, naming gpa, with a
\* record in the store.
C6_Witness ==
    /\ resp.kind = "create"
    /\ resp.status = 422
    /\ resp.body.v.detail.loc = {"gpa"}
    /\ db # {}

\* C7 (as claimed): an Update is held to the constraints of a Create, one
\* that provides gpa above 4.0 is answered 422 and stores nothing, so after
\* any Creates and Updates every stored record has gpa <= 4.0.
C7_UpdateValidation ==
    /\ \A d \in db : d.gpa <= GpaLe
    /\ \A c \in UpdateConts : c.wrote # NoDoc => c.wrote.gpa <= GpaLe

\* C8 (as claimed): an Update whose write modified a record never answers 404,
\* and the record it returns is the record its own write left.
C8_UpdateAtomic ==
    (resp.kind = "update" /\ resp.wrote # NoDoc) =>
        /\ resp.status # 404
        /\ resp.status = 200 => resp.body = JObject(resp.wrote)

\* C9: Get, Delete and Update (whatever its update set) on an id no stored
\* record has answer 404 naming the id, and no step they take changes the store.
C9_NotFound ==
    \A id \in PathIds :
        ~Stored(id) =>
            /\ ShowOutcome(id) = Outcome(db, NotFound("get", id, NoDoc), {})
            /\ DeleteOutcome(id) = Outcome(db, NotFound("delete", id, NoDoc), {})
            /\ \A body \in UpdateBodies :
                  UpdateStudentModelErrors(body) = {} =>
                      \/ UpdateOutcome(id, body) = Outcome(db, NotFound("update", id, NoDoc), {})
                      \/ UpdateOutcome(id, body) =
                             Outcome(db, NoResp, {Suspended("update_existing", id, NoDoc)})
            /\ \A c \in UpdateConts :
                  c.id = id =>
                      /\ UpdateExistingOutcome(c).resp.status = 404
                      /\ NamesId(UpdateExistingOutcome(c).resp, id)
                      /\ UpdateExistingOutcome(c).db = db
                      /\ UpdateFindOutcome(c) =
                             Outcome(db, NoResp, {Suspended("update_existing", id, c.wrote)})

\* C9 witness: an Update with a field to set, on a malformed id, answered 404
\* with a record in the store.
C9_Witness ==
    /\ resp.kind = "update"
    /\ resp.status = 404
    /\ resp.id = JStr(MalformedText)
    /\ resp.wrote = NoDoc
    /\ db # {}

\* C10 (as claimed): a start-up that reaches the running server has a client
\* built from a variable that was set; with only MONGODB_URL set it is built
\* from MONGODB_URL; and when the construction from MONGODB_URI_SRV raised
\* while MONGODB_URI is set it is built from MONGODB_URI.
C10_Fallback ==
    spc = "running" =>
        /\ client # Undefined
        /\ client.host # NOTSET
        /\ client.host \in {env[n] : n \in {"MONGODB_URL", "MONGODB_URI", "MONGODB_URI_SRV"}}
        /\ (env["MONGODB_URI"] = NOTSET /\ env["MONGODB_URI_SRV"] = NOTSET) =>
              client.host = env["MONGODB_URL"]
        /\ (srvFailed /\ env["MONGODB_URI"] # NOTSET) =>
              client.host = env["MONGODB_URI"]

====
